---- MODULE Spec2Model ----
(***************************************************************************)
(* Model of winston-cloudwatch's upload engine, the callback               *)
(* implementation in src/lib/cloudwatch-integration.ts.                    *)
(*                                                                         *)
(* Node runs every handler (a call of upload, the callback of a remote     *)
(* call) to completion before the next one starts, so one action is one    *)
(* handler: it begins where the event loop hands control to the library    *)
(* and ends where the library has issued its next remote call or has       *)
(* returned.  A remote call in flight is the pc of the call that waits for *)
(* it; the remote service answers with any response of its interface.      *)
(***************************************************************************)
EXTENDS Integers, Sequences, FiniteSets, TLC

VARIABLES
    postingEvents,  \* lib._postingEvents: stream name -> marked in flight
    nextToken,      \* lib._nextToken: previousKeyMapKey(group, stream) -> token
    queue,          \* the callers' logEvents arrays, by array identity
    call,           \* the upload calls: arguments, position and payload of each
    retention,      \* group name -> putRetentionPolicy requests not yet answered
    transport,      \* the transport that owns the first queue, and its clock
    history         \* cleared: the keys clearSequenceToken was called for
                    \* since an upload for the key last passed the guard
                    \* carved: the timestamps of the events that were ever
                    \* taken off a queue into a batch

vars == <<postingEvents, nextToken, queue, call, retention, transport, history>>

----------------------------------------------------------------------------
(* Program constants.                                                      *)

MAX_EVENT_MSG_SIZE_BYTES == 256000
MAX_BATCH_SIZE_BYTES == 1000000
BASE_EVENT_SIZE_BYTES == 26
\* retrySubmit(aws, payload, 3, cb)
RETRY_TIMES == 3

(* Bounds of the model.                                                    *)

\* events the queue of a single caller holds
MaxQueue == 2
\* events the queue that two callers share holds
MaxShared == 1
\* events of the queues the carving specification starts from
MaxCarveQueue == 5
\* putRetentionPolicy requests of one group the model tells apart: it counts
\* the unanswered ones up to this number
MaxRetention == 1
\* timers of kthxbye that are set and have not fired
MaxTimers == 1
\* calls of the callback of one kthxbye that the model records
MaxFlushed == 2

----------------------------------------------------------------------------
(* Values.                                                                 *)

Min(a, b) == IF a < b THEN a ELSE b

\* JavaScript's undefined and null, as the token store and a payload hold them
Undefined == "undefined"
Null == "null"
\* the empty string
Empty == ""
\* continuation tokens the remote service hands out
Tokens == {"t1", "t2"}
TokenValues == Tokens \cup {Undefined, Null, Empty}

\* err === undefined
NoError == "none"
\* the error upload makes itself
MessageTruncated == "Message Truncated because it exceeds the CloudWatch size limit"
\* names of the errors the remote service answers with
RemoteErrors == {"InvalidSequenceTokenException", "ResourceNotFoundException",
                 "OperationAbortedException", "ResourceAlreadyExistsException",
                 "AccessDeniedException", "ThrottlingException"}

\* group and stream names are strings: sequences of characters
Groups == {<<"g">>, <<"g", ":", "s">>}
Streams == {<<"s">>, <<"s", ":", "s">>}
\* the upload calls that can be running at the same time
Calls == {1, 2}
Queues == {1, 2}

\* A message is a string of `units` UTF-16 code units, each of which encodes
\* to `width` UTF-8 bytes (1: ASCII, 2: U+0080..U+07FF, 3: the rest of the BMP).
Message(units, width) == [units |-> units, width |-> width]
SmallMessage == Message(4, 1)
\* 'x'.repeat(300000)
OversizedAscii == Message(300000, 1)
\* 100000 three-byte characters: 300000 bytes
OversizedWide == Message(100000, 3)
\* events of 250,026 bytes of cost
QuarterMessage == Message(250000, 1)
\* the largest message that is not oversized
EdgeMessage == Message(MAX_EVENT_MSG_SIZE_BYTES - BASE_EVENT_SIZE_BYTES, 1)

Event(m, t) == [message |-> m, timestamp |-> t]

\* the timestamps of a list of events
Stamps(evs) == {evs[i].timestamp : i \in DOMAIN evs}

\* a name was never resolved
Never == -1

\* Nothing has happened yet.  groupResolvedAt, streamResolvedAt: when the
\* function that gives the name was last called; lookup: the last lookup of a
\* name, whether it called the function, and the time since that function
\* was called before
NoHistory ==
    [cleared |-> {}, carved |-> {}, groupResolvedAt |-> Never,
     streamResolvedAt |-> Never,
     lookup |-> [name |-> "none", called |-> FALSE, since |-> Never]]

----------------------------------------------------------------------------
(* Strings.                                                                *)

\* Buffer.byteLength(message, "utf8")
ByteLength(m) == m.units * m.width

\* message.substring(0, n): the first n UTF-16 code units
Substring(m, n) == [m EXCEPT !.units = Min(m.units, n)]

\* message.length
Length(m) == m.units

\* group + ":" + stream
previousKeyMapKey(group, stream) == group \o <<":">> \o stream

Keys == {previousKeyMapKey(g, s) : g \in Groups, s \in Streams}

----------------------------------------------------------------------------
(* The carving loop of safeUpload.                                         *)

\* evSize before the cap: Buffer.byteLength(ev.message) + BASE_EVENT_SIZE_BYTES
EventSize(ev) == ByteLength(ev.message) + BASE_EVENT_SIZE_BYTES

\* if (evSize > MAX_EVENT_MSG_SIZE_BYTES)
Oversized(ev) == EventSize(ev) > MAX_EVENT_MSG_SIZE_BYTES

\* the batch test made before the event is counted, on the bytes taken so far
BatchFullBeforeAdding(bytes, evSize) == bytes > MAX_BATCH_SIZE_BYTES

\* the batch test made against the cap of one event
BatchFullAtEventCap(bytes, evSize) == bytes + evSize > MAX_EVENT_MSG_SIZE_BYTES

\* if (bytes + evSize > MAX_BATCH_SIZE_BYTES) break
BatchFull(bytes, evSize) == bytes + evSize > MAX_BATCH_SIZE_BYTES

\* The while loop.  evs is the array (its events are truncated in place),
\* errors counts the cb(msgTooBigErr) calls the loop has made.
RECURSIVE CarveLoop(_, _, _, _)
CarveLoop(evs, entryIndex, bytes, errors) ==
    IF ~(entryIndex < Len(evs))
    THEN [evs |-> evs, entryIndex |-> entryIndex, errors |-> errors]
    ELSE LET ev == evs[entryIndex + 1]
             over == Oversized(ev)
             evSize == IF over THEN MAX_EVENT_MSG_SIZE_BYTES ELSE EventSize(ev)
             evs2 == IF over
                     THEN [evs EXCEPT ![entryIndex + 1].message = Substring(@, evSize)]
                     ELSE evs
             errors2 == IF over THEN errors + 1 ELSE errors
         IN  IF BatchFull(bytes, evSize)
             THEN [evs |-> evs2, entryIndex |-> entryIndex, errors |-> errors2]
             ELSE CarveLoop(evs2, entryIndex + 1, bytes + evSize, errors2)

Carve(evs) == CarveLoop(evs, 0, 0, 0)

\* logEvents.splice(0, entryIndex): what it returns and what it leaves
\* a splice that returns the first of the events it removes only
SpliceTakenFirst(evs, n) == SubSeq(evs, 1, Min(n, 1))
SpliceTaken(evs, n) == SubSeq(evs, 1, n)
SpliceLeftAll(evs, n) == evs
SpliceLeft(evs, n) == SubSeq(evs, n + 1, Len(evs))

----------------------------------------------------------------------------
(* The calls.                                                              *)

\* pc: the remote call an upload call waits for
\*   "idle"          the slot has made no call
\*   "describeGroup" describeLogStreams of ensureGroupPresent
\*   "createGroup"   createLogGroup
\*   "describeStream" describeLogStreams of getStream
\*   "createStream"  createLogStream
\*   "put"           putLogEvents
\*   "done"          nothing: the call has ended
\* phase: which code waits for the token or the append
\*   "first"   safeUpload       "another" submitWithAnotherToken
\*   "retry"   retrySubmit, with `times` retries left
\* events, token: the payload's logEvents and sequenceToken
\* cb: whose callback the call was given: of a "caller" of the library, of the
\*     "interval" of the transport or of its "kthxbye"
\* tokenFrom, puts, outcomes, guard: the call's history
\*   tokenFrom: where getToken's last answer came from: "cache", "remote"
\*              (a describe that found the stream) or "error"
\*   puts:      the appends it has submitted
\*   outcomes:  the errors its callback was called with, in order
\*   guard:     how the guard check went: "passed", or ended the call because
\*              the stream was "posting" or the queue "empty"
\*   afterClear: it passed the guard as the first upload for its key since
\*              clearSequenceToken was called for the key
\*   groupPresent: the result ensureGroupPresent has called back with,
\*              "unknown" before it has
IdleCall ==
    [pc |-> "idle", phase |-> "first", times |-> 0,
     group |-> <<>>, stream |-> <<>>, queue |-> 0, days |-> 0, ensure |-> TRUE,
     events |-> <<>>, token |-> Undefined, tokenFrom |-> "none", cb |-> "caller",
     puts |-> 0, outcomes |-> <<>>, guard |-> "none", afterClear |-> FALSE,
     groupPresent |-> "unknown"]

Running(c) == call[c].pc \notin {"idle", "done"}

\* cb(err) of the caller
Callback(rec, err) == [rec EXCEPT !.outcomes = Append(@, err)]

\* a callback that leaves the mark where it is
UnmarkNothing(p, stream) == p

\* The callback upload hands to safeUpload: delete lib._postingEvents[streamName]
\* and cb(err).  p is the in-flight map as the handler has it so far.
Unmark(p, stream) == [p EXCEPT ![stream] = FALSE]
Mark(p, stream) == [p EXCEPT ![stream] = TRUE]

\* the call has ended: nothing waits for a remote call any more
\* (of an ended call the model keeps what its caller has seen of it)
Ended(rec) ==
    [IdleCall EXCEPT !.pc = "done", !.group = rec.group, !.stream = rec.stream,
                     !.outcomes = rec.outcomes, !.guard = rec.guard,
                     !.groupPresent = rec.groupPresent]

\* a resubmission that leaves out the first event of the payload
SubmitWithoutFirst(rec, phase, times) ==
    [rec EXCEPT !.pc = "put", !.phase = phase, !.times = times, !.puts = @ + 1,
                !.events = IF rec.puts > 0 THEN Tail(@) ELSE @]

\* aws.putLogEvents(payload, ...)
Submit(rec, phase, times) ==
    [rec EXCEPT !.pc = "put", !.phase = phase, !.times = times, !.puts = @ + 1]

----------------------------------------------------------------------------
(* Decisions of the code.                                                  *)

\* the guard without its check of the mark
GuardedOutWhenEmpty(stream, logEvents) == Len(logEvents) <= 0

\* a guard that looks for a mark of any stream name
GuardedOutAnyStream(stream, logEvents) ==
    (\E s \in Streams : postingEvents[s]) \/ Len(logEvents) <= 0

\* the guard without its check of the queue
GuardedOutWhenPosting(stream, logEvents) == postingEvents[stream]

\* if (lib._postingEvents[streamName] || logEvents.length <= 0)
GuardedOut(stream, logEvents) == postingEvents[stream] \/ Len(logEvents) <= 0

\* upload without its mark
MarkNothing(p, stream) == p

\* lib._postingEvents[streamName] = true, before safeUpload
MarkInFlight(p, stream) == Mark(p, stream)

\* lib._postingEvents[streamName] = true, before putLogEvents
MarkPosting(p, stream) == Mark(p, stream)

\* a token store that is never looked up
HasTokenNever(nt, key) == FALSE

\* existingNextToken != null
HasToken(nt, key) == nt[key] \notin {Null, Undefined}

\* a test that lets everything but undefined through
TruthyUnlessUndefined(token) == token # Undefined

\* if (token) ..., token || undefined
Truthy(token) == token \in Tokens

\* err.name === "InvalidSequenceTokenException" || err.name === "ResourceNotFoundException"
NeedsAnotherToken(err) ==
    err \in {"InvalidSequenceTokenException", "ResourceNotFoundException"}

\* a describe of the group that takes every error for not-found
GroupNotFoundOnAnyError(err) == err # NoError

\* if (err && err.name == "ResourceNotFoundException"), in ensureGroupPresent
GroupNotFound(err) == err = "ResourceNotFoundException"

\* a wrapper that hands every error on
ignoreNothing(err) == err

\* ignoreInProgress: the error its wrapped callback gets
ignoreInProgress(err) ==
    IF err \in {"OperationAbortedException", "ResourceAlreadyExistsException"}
    THEN NoError
    ELSE err

\* a putRetentionPolicy that does not look at the days
putRetentionPolicyAlways(ret, group, days) ==
    [ret EXCEPT ![group] = Min(@ + 1, MaxRetention)]

\* putRetentionPolicy: a request goes out if (days > 0)
putRetentionPolicy(ret, group, days) ==
    IF days > 0 THEN [ret EXCEPT ![group] = Min(@ + 1, MaxRetention)] ELSE ret

\* a callback of putRetentionPolicy that hands its error to the uploads of
\* the group that are running
retentionCallbackFailsUploads(calls, group, err) ==
    [c \in DOMAIN calls |->
        IF err # NoError /\ calls[c].pc \notin {"idle", "done"} /\ calls[c].group = group
        THEN [calls[c] EXCEPT !.pc = "done", !.outcomes = Append(@, err)]
        ELSE calls[c]]

\* The callback putRetentionPolicy gives aws.putRetentionPolicy:
\* if (err) console.error(...), and nothing else.  calls are the upload calls.
retentionCallback(calls, group, err) == calls

\* a store that files the next token under every key
StoreNextTokenEverywhere(nt, key, next) ==
    IF Truthy(next) THEN [k \in DOMAIN nt |-> next] ELSE nt

\* if (data && data.nextSequenceToken) lib._nextToken[key] = data.nextSequenceToken
StoreNextToken(nt, key, next) ==
    IF Truthy(next) THEN [nt EXCEPT ![key] = next] ELSE nt

\* a getToken that always begins with the group
FirstRemoteCallOfGroup(ensure) == "describeGroup"

\* if (options.ensureLogGroup !== false) ensureGroupPresent(...) else getStream(...)
FirstRemoteCall(ensure) == IF ensure THEN "describeGroup" ELSE "describeStream"

\* lib._nextToken[key] = null, in submitWithAnotherToken
ForgetToken(nt, key) == [nt EXCEPT ![key] = Null]

----------------------------------------------------------------------------
(* The transport of src/index.ts, as far as the callbacks it gives upload. *)

\* const defaultFlushTimeoutMs = 10000
defaultFlushTimeoutMs == 10000
\* private readonly _nameCacheDuration = 60000
nameCacheDuration == 60000

\* the error of a flush that ran out of time
FlushTimedOut == "Timeout reached while waiting for logs to submit"

\* logGroupName, logStreamName and logEvents of the transport
G == <<"g">>
S == <<"s">>
TransportGroup == G
TransportStream == S
TransportQueue == 1
TransportKey == previousKeyMapKey(TransportGroup, TransportStream)

\* The transport, with the clock it reads:
\*   intervalId    a periodic upload timer is set
\*   flushTimeout  this.flushTimeout, 0 while it is undefined
\*   now           Date.now()
\*   timers        setTimeout(() => this.kthxbye(callback), 0) not yet fired
\*   flushed       what the callback of kthxbye has been called with, the
\*                 first MaxFlushed times since kthxbye was called
\*   groupNameCache, streamNameCache, namesCachedAt
\*                 the cache of names given as functions; namesCachedAt is 0
\*                 while it is undefined (the code tests it for truth)
\*   kthxbyeAt     when the owner of the transport last called kthxbye
NewTransport ==
    [intervalId |-> FALSE, flushTimeout |-> 0, now |-> 0, timers |-> 0,
     flushed |-> <<>>, groupNameCache |-> Undefined,
     streamNameCache |-> Undefined, namesCachedAt |-> 0, kthxbyeAt |-> Never]

\* a clear that leaves the token in the store
DeleteTokenNothing(nt, key) == nt

\* delete lib._nextToken[key]
DeleteToken(nt, key) == [nt EXCEPT ![key] = Undefined]

\* callback(err) of the caller of kthxbye
flushCallback(tr, err) ==
    IF Len(tr.flushed) < MaxFlushed
    THEN [tr EXCEPT !.flushed = Append(@, err)]
    ELSE tr

\* The callback kthxbye gives submit, called with err while the queue is
\* empty or not.  r is the token store, the transport and the history of the
\* running handler so far.
submitCallback(r, err, empty) ==
    LET tr == r.transport IN
    [nextToken |-> DeleteToken(r.nextToken, TransportKey),
     history |-> [r.history EXCEPT !.cleared = @ \cup {TransportKey}],
     transport |->
        IF err # NoError THEN flushCallback(tr, err)
        ELSE IF empty THEN flushCallback(tr, NoError)
        ELSE IF tr.now > tr.flushTimeout
        THEN flushCallback(tr, FlushTimedOut)
        ELSE [tr EXCEPT !.timers = Min(@ + 1, MaxTimers)]]

\* the callback cb of an upload call is called with each of errs in turn: the
\* callback of the periodic upload hands an error to the error handler, the
\* callback of a caller of the library is outside the model
RECURSIVE Called(_, _, _, _)
Called(cb, errs, r, empty) ==
    IF errs = <<>> \/ cb # "kthxbye"
    THEN r
    ELSE Called(cb, Tail(errs), submitCallback(r, Head(errs), empty), empty)

\* The handler called cb with errs; nt, tr and h are the token store, the
\* transport and the history as it has them otherwise.
Deliver(cb, errs, nt, tr, h) ==
    LET r == Called(cb, errs, [nextToken |-> nt, transport |-> tr, history |-> h],
                    queue'[TransportQueue] = <<>>)
    IN  /\ nextToken' = r.nextToken
        /\ transport' = r.transport
        /\ history' = r.history

----------------------------------------------------------------------------
(* The callbacks of getToken.  p, qs, nt, tr and h are lib._postingEvents,  *)
(* the arrays, the token store, the transport and the history as the       *)
(* running handler has left them so far; each sets every variable but      *)
(* retention.                                                              *)

\* The callback safeUpload gives getToken: carve the batch off the queue and
\* submit it.  Every oversized event the loop meets calls cb(msgTooBigErr),
\* the callback upload made (it deletes the in-flight mark), and the loop goes
\* on; then the mark is set again and the append goes out.
safeUploadCallback(c, rec, err, token, from, p, qs, nt, tr, h) ==
    IF err # NoError
    THEN /\ call' = [call EXCEPT ![c] = Ended(Callback(rec, err))]
         /\ postingEvents' = Unmark(p, rec.stream)
         /\ queue' = qs
         /\ Deliver(rec.cb, <<err>>, nt, tr, h)
    ELSE LET r == Carve(qs[rec.queue])
             reported == [i \in 1..r.errors |-> MessageTruncated]
             p2 == IF r.errors > 0 THEN Unmark(p, rec.stream) ELSE p
             rec2 == [rec EXCEPT !.outcomes = @ \o reported,
                                 !.events = SpliceTaken(r.evs, r.entryIndex),
                                 !.token = IF Truthy(token) THEN token ELSE Undefined,
                                 !.tokenFrom = from]
         IN  /\ queue' = [qs EXCEPT ![rec.queue] = SpliceLeft(r.evs, r.entryIndex)]
             /\ postingEvents' = MarkPosting(p2, rec.stream)
             /\ call' = [call EXCEPT ![c] = Submit(rec2, "first", 0)]
             /\ Deliver(rec.cb, reported, nt, tr,
                        [h EXCEPT !.carved = @ \cup Stamps(rec2.events)])

\* The callback submitWithAnotherToken gives getToken: err is not looked at,
\* payload.sequenceToken = token || undefined, and the append goes out again.
anotherTokenCallback(c, rec, err, token, from, p, qs, nt, tr, h) ==
    LET rec2 == [rec EXCEPT !.token = IF Truthy(token) THEN token ELSE Undefined,
                            !.tokenFrom = from]
    IN  /\ call' = [call EXCEPT ![c] = Submit(rec2, "another", 0)]
        /\ postingEvents' = p
        /\ queue' = qs
        /\ Deliver(rec.cb, <<>>, nt, tr, h)

tokenCallback(c, rec, err, token, from, p, qs, nt, tr, h) ==
    IF rec.phase = "first"
    THEN safeUploadCallback(c, rec, err, token, from, p, qs, nt, tr, h)
    ELSE anotherTokenCallback(c, rec, err, token, from, p, qs, nt, tr, h)

\* getToken, up to its first remote call: a cached token is handed to the
\* callback at once, else ensureGroupPresent or getStream describes.
getToken(c, rec, p, qs, nt, tr, h) ==
    LET key == previousKeyMapKey(rec.group, rec.stream) IN
    IF HasToken(nt, key)
    THEN tokenCallback(c, rec, NoError, nt[key], "cache", p, qs, nt, tr, h)
    ELSE /\ call' = [call EXCEPT ![c] =
                        [rec EXCEPT !.pc = FirstRemoteCall(rec.ensure)]]
         /\ postingEvents' = p
         /\ queue' = qs
         /\ Deliver(rec.cb, <<>>, nt, tr, h)

\* a callback of getToken called from the callback of a remote call
Answered(c, rec, err, token, from) ==
    tokenCallback(c, rec, err, token, from, postingEvents, queue, nextToken,
                  transport, history)

\* the callback of a remote call goes on to the next remote call
Proceed(c, pc) ==
    /\ call' = [call EXCEPT ![c].pc = pc]
    /\ UNCHANGED <<postingEvents, queue, nextToken, transport, history>>

\* The callback getToken gives ensureGroupPresent, called with
\* (err1, groupPresent): if (err1) return cb(err1), else getStream.
groupCallback(c, rec, err1, groupPresent) ==
    LET rec2 == [rec EXCEPT !.groupPresent = groupPresent] IN
    IF err1 # NoError
    THEN Answered(c, rec2, err1, Undefined, "error")
    ELSE /\ call' = [call EXCEPT ![c] = [rec2 EXCEPT !.pc = "describeStream"]]
         /\ UNCHANGED <<postingEvents, queue, nextToken, transport, history>>

----------------------------------------------------------------------------
(* The operations of the library and the responses of the remote service.  *)

\* upload(aws, groupName, streamName, logEvents, retentionInDays, options, cb),
\* up to its first remote call.  qs, tr: the arrays and the transport as the
\* caller has left them.
uploadFrom(c, group, stream, q, days, ensure, cb, qs, tr) ==
    /\ ~Running(c)
    /\ LET key == previousKeyMapKey(group, stream)
           rec == [IdleCall EXCEPT !.group = group, !.stream = stream, !.queue = q,
                                   !.days = days, !.ensure = ensure, !.cb = cb,
                                   !.guard = IF postingEvents[stream] THEN "posting"
                                             ELSE IF Len(qs[q]) <= 0 THEN "empty"
                                             ELSE "passed",
                                   !.afterClear = /\ ~GuardedOut(stream, qs[q])
                                                  /\ key \in history.cleared]
       IN  IF GuardedOut(stream, qs[q])
           THEN /\ call' = [call EXCEPT ![c] = Ended(Callback(rec, NoError))]
                /\ queue' = qs
                /\ UNCHANGED postingEvents
                /\ Deliver(cb, <<NoError>>, nextToken, tr, history)
           ELSE getToken(c, rec, MarkInFlight(postingEvents, stream), qs, nextToken,
                         tr, [history EXCEPT !.cleared = @ \ {key}])
    /\ UNCHANGED retention

\* upload, called by a caller of the library
upload(c, group, stream, q, days, ensure) ==
    uploadFrom(c, group, stream, q, days, ensure, "caller", queue, transport)

\* describeLogStreams({logGroupName}) of ensureGroupPresent answers
DescribeGroupResponds(c, err) ==
    /\ call[c].pc = "describeGroup"
    /\ LET rec == call[c] IN
       IF GroupNotFound(err)
       THEN /\ Proceed(c, "createGroup")
            /\ UNCHANGED retention
       ELSE \* putRetentionPolicy(...); cb(err, true)
            /\ retention' = putRetentionPolicy(retention, rec.group, rec.days)
            /\ groupCallback(c, rec, err, TRUE)

\* createLogGroup answers, through ignoreInProgress
CreateGroupResponds(c, answer) ==
    /\ call[c].pc = "createGroup"
    /\ LET rec == call[c]
           err == ignoreInProgress(answer)
       IN  /\ retention' = IF err = NoError
                           THEN putRetentionPolicy(retention, rec.group, rec.days)
                           ELSE retention
           \* cb(err, err ? false : true)
           /\ groupCallback(c, rec, err, err = NoError)

\* describeLogStreams({logGroupName, logStreamNamePrefix}) of getStream
\* answers: an error, a list without the stream, or the stream with its
\* uploadSequenceToken.  (getToken's groupPresent is true whenever getStream
\* was called, so a stream that was found always yields its token.)
DescribeStreamResponds(c, err, found, token) ==
    /\ call[c].pc = "describeStream"
    /\ LET rec == call[c] IN
       IF err # NoError
       THEN Answered(c, rec, err, Undefined, "error")
       ELSE IF ~found
       THEN Proceed(c, "createStream")
       ELSE Answered(c, rec, NoError, token, "remote")
    /\ UNCHANGED retention

\* createLogStream answers, through ignoreInProgress: getStream again
CreateStreamResponds(c, answer) ==
    /\ call[c].pc = "createStream"
    /\ LET rec == call[c]
           err == ignoreInProgress(answer)
       IN  IF err # NoError
           THEN Answered(c, rec, err, Undefined, "error")
           ELSE Proceed(c, "describeStream")
    /\ UNCHANGED retention

\* the call ends: the in-flight mark is deleted and cb(err) called
Ends(c, rec, err, nt) ==
    /\ postingEvents' = Unmark(Unmark(postingEvents, rec.stream), rec.stream)
    /\ call' = [call EXCEPT ![c] = Ended(Callback(rec, err))]
    /\ UNCHANGED queue
    /\ Deliver(rec.cb, <<err>>, nt, transport, history)

\* putLogEvents of safeUpload answers
FirstPutResponds(c, err, next) ==
    /\ call[c].pc = "put" /\ call[c].phase = "first"
    /\ LET rec == call[c]
           key == previousKeyMapKey(rec.group, rec.stream)
       IN  IF err # NoError /\ NeedsAnotherToken(err)
           THEN \* submitWithAnotherToken
                getToken(c, [rec EXCEPT !.phase = "another"], postingEvents, queue,
                         ForgetToken(nextToken, key), transport, history)
           ELSE IF err # NoError
           THEN \* retrySubmit(aws, payload, 3, cb)
                /\ call' = [call EXCEPT ![c] = Submit(rec, "retry", RETRY_TIMES)]
                /\ UNCHANGED <<nextToken, postingEvents, queue, transport, history>>
           ELSE Ends(c, rec, NoError, StoreNextToken(nextToken, key, next))
    /\ UNCHANGED retention

\* putLogEvents of submitWithAnotherToken answers; its callback takes the
\* error alone, the nextSequenceToken of the answer is not read
AnotherPutResponds(c, err, next) ==
    /\ call[c].pc = "put" /\ call[c].phase = "another"
    /\ Ends(c, call[c], err, nextToken)
    /\ UNCHANGED retention

\* putLogEvents of retrySubmit answers; its callback takes the error alone,
\* the nextSequenceToken of the answer is not read
RetryPutResponds(c, err, next) ==
    /\ call[c].pc = "put" /\ call[c].phase = "retry"
    /\ LET rec == call[c] IN
       IF err # NoError /\ rec.times > 0
       THEN /\ call' = [call EXCEPT ![c] = Submit(rec, "retry", rec.times - 1)]
            /\ UNCHANGED <<nextToken, postingEvents, queue, transport, history>>
       ELSE Ends(c, rec, err, nextToken)
    /\ UNCHANGED retention

\* aws.putRetentionPolicy answers
RetentionResponds(group, err) ==
    /\ retention[group] > 0
    /\ retention' = [retention EXCEPT ![group] = @ - 1]
    /\ call' = retentionCallback(call, group, err)
    /\ UNCHANGED <<postingEvents, nextToken, queue, transport, history>>

\* clearSequenceToken(group, stream)
clearSequenceToken(group, stream) ==
    /\ nextToken' = DeleteToken(nextToken, previousKeyMapKey(group, stream))
    /\ history' = [history EXCEPT !.cleared = @ \cup {previousKeyMapKey(group, stream)}]
    /\ UNCHANGED <<postingEvents, queue, call, retention, transport>>

\* the owner of a queue pushes an event
Push(q, ev, bound) ==
    /\ Len(queue[q]) < bound
    /\ queue' = [queue EXCEPT ![q] = Append(@, ev)]
    /\ UNCHANGED <<postingEvents, nextToken, call, retention, transport, history>>

----------------------------------------------------------------------------
(* The operations of the transport.                                        *)

\* retentionInDays and options.ensureLogGroup of a transport made with neither
TransportDays == 0
TransportEnsure == TRUE

Orders(n) == {f \in [1..n -> 1..n] : \A i, j \in 1..n : i # j => f[i] # f[j]}

\* this.logEvents.sort((a, b) => (a.timestamp > b.timestamp ? 1 : -1)), in
\* place: the comparator never answers 0, so the order it leaves events of
\* one timestamp in is the choice of the sort
Sorts(evs) ==
    {[i \in 1..Len(evs) |-> evs[f[i]]] :
        f \in {g \in Orders(Len(evs)) :
                 \A i \in 1..(Len(evs) - 1) :
                    evs[g[i]].timestamp <= evs[g[i + 1]].timestamp}}

\* submit(callback), with valid names; tr is the transport as the caller has
\* left it
submit(c, cb, tr) ==
    IF queue[TransportQueue] = <<>>
    THEN /\ UNCHANGED <<call, postingEvents, queue, retention>>
         /\ Deliver(cb, <<NoError>>, nextToken, tr, history)
    ELSE \E sorted \in Sorts(queue[TransportQueue]) :
            uploadFrom(c, TransportGroup, TransportStream, TransportQueue,
                       TransportDays, TransportEnsure, cb,
                       [queue EXCEPT ![TransportQueue] = sorted], tr)

\* add(log) of a message m that is not empty
add(m, bound) ==
    /\ Len(queue[TransportQueue]) < bound
    /\ queue' = [queue EXCEPT ![TransportQueue] = Append(@, Event(m, transport.now))]
    /\ transport' = [transport EXCEPT !.intervalId = TRUE]
    /\ UNCHANGED <<postingEvents, nextToken, call, retention, history>>

\* the callback of setInterval: submit, an error goes to the error handler
IntervalFires(c) ==
    /\ transport.intervalId
    /\ submit(c, "interval", transport)

\* a deadline that every invocation of kthxbye sets anew
FlushDeadlineEachCall(tr) == tr.now + defaultFlushTimeoutMs

\* this.flushTimeout || Date.now() + defaultFlushTimeoutMs
FlushDeadline(tr) ==
    IF tr.flushTimeout # 0 THEN tr.flushTimeout ELSE tr.now + defaultFlushTimeoutMs

\* kthxbye(callback), up to the first remote call of its submit
kthxbyeFrom(c, tr) ==
    submit(c, "kthxbye",
           [tr EXCEPT !.intervalId = FALSE, !.flushTimeout = FlushDeadline(tr)])

\* kthxbye is called while no earlier kthxbye is pending
kthxbye(c) ==
    /\ transport.timers = 0
    /\ \A o \in Calls : ~(Running(o) /\ call[o].cb = "kthxbye")
    /\ kthxbyeFrom(c, [transport EXCEPT !.flushed = <<>>,
                                        !.kthxbyeAt = transport.now])

\* setTimeout(() => this.kthxbye(callback), 0) fires
KthxbyeTimerFires(c) ==
    /\ transport.timers > 0
    /\ kthxbyeFrom(c, [transport EXCEPT !.timers = @ - 1])

\* time passes
Tick(ms, until) ==
    /\ transport.now + ms <= until
    /\ transport' = [transport EXCEPT !.now = @ + ms]
    /\ UNCHANGED <<postingEvents, nextToken, queue, call, retention, history>>

----------------------------------------------------------------------------
(* The next-state relation, for given callers and a given remote service.  *)

\* retentionInDays of the callers
Days == {0, 7}
\* what a describe or a create answers with besides success
DescribeErrors == {"ResourceNotFoundException", "AccessDeniedException"}
CreateErrors == {"OperationAbortedException", "ResourceAlreadyExistsException",
                 "AccessDeniedException"}
\* what aws.putRetentionPolicy answers with besides success
RetentionErrors == {"AccessDeniedException"}
\* what an append answers with besides success
PutErrors == {"InvalidSequenceTokenException", "ResourceNotFoundException",
              "ThrottlingException"}

Init ==
    /\ postingEvents = [s \in Streams |-> FALSE]
    /\ nextToken = [k \in Keys |-> Undefined]
    /\ queue = [q \in Queues |-> <<>>]
    /\ call = [c \in Calls |-> IdleCall]
    /\ retention = [g \in Groups |-> 0]
    /\ transport = NewTransport
    /\ history = NoHistory

\* the remote service answers the call that c waits for; tokens are the
\* continuation tokens it hands out
Respond(c, tokens) ==
    \/ \E err \in DescribeErrors \cup {NoError} : DescribeGroupResponds(c, err)
    \/ \E err \in CreateErrors \cup {NoError} : CreateGroupResponds(c, err)
    \/ \E err \in DescribeErrors : DescribeStreamResponds(c, err, FALSE, Undefined)
    \/ DescribeStreamResponds(c, NoError, FALSE, Undefined)
    \/ \E token \in tokens \cup {Null, Empty} :
          DescribeStreamResponds(c, NoError, TRUE, token)
    \/ \E err \in CreateErrors \cup {NoError} : CreateStreamResponds(c, err)
    \/ \E err \in PutErrors : FirstPutResponds(c, err, Undefined)
    \/ \E next \in tokens \cup {Undefined} : FirstPutResponds(c, NoError, next)
    \/ \E err \in PutErrors : AnotherPutResponds(c, err, Undefined)
    \/ \E next \in tokens \cup {Undefined} : AnotherPutResponds(c, NoError, next)
    \/ \E err \in PutErrors : RetryPutResponds(c, err, Undefined)
    \/ \E next \in tokens \cup {Undefined} : RetryPutResponds(c, NoError, next)

\* callers cs upload queues qs to streams ss of groups gs and log events evs
\* into queues of at most bound events
Work(cs, gs, ss, qs, days, ensures, tokens, evs, bound) ==
    \/ \E c \in cs, g \in gs, s \in ss, q \in qs, d \in days, e \in ensures :
          upload(c, g, s, q, d, e)
    \/ \E c \in cs : Respond(c, tokens)
    \/ \E q \in qs, ev \in evs : Push(q, ev, bound)

\* the same, with the answers to putRetentionPolicy and callers that clear
\* tokens
Step(cs, gs, ss, qs, days, ensures, tokens, evs, bound) ==
    \/ \E c \in cs, g \in gs, s \in ss, q \in qs, d \in days, e \in ensures :
          upload(c, g, s, q, d, e)
    \/ \E c \in cs : Respond(c, tokens)
    \/ \E g \in gs, err \in RetentionErrors \cup {NoError} : RetentionResponds(g, err)
    \/ \E g \in gs, s \in ss : clearSequenceToken(g, s)
    \/ \E q \in qs, ev \in evs : Push(q, ev, bound)

----------------------------------------------------------------------------
(* Two callers at a time, two streams of one group, one queue, no          *)
(* retention policy.                                                       *)

Next ==
    Work({1, 2}, {G}, Streams, {1}, {0}, {TRUE}, {"t1"},
         {Event(SmallMessage, 0), Event(OversizedAscii, 0)}, MaxShared)

Spec == Init /\ [][Next]_vars

(* Two callers at a time, one stream, a queue each or one for both.        *)

NextGuard ==
    Step({1, 2}, {G}, {S}, Queues, {7}, {TRUE}, {"t1"},
         {Event(SmallMessage, 0), Event(OversizedAscii, 0)}, MaxShared)

SpecGuard == Init /\ [][NextGuard]_vars

(* One caller, one stream, every answer of the remote service.             *)

NextCall ==
    Step({1}, {G}, {S}, {1}, Days, BOOLEAN, Tokens,
         {Event(SmallMessage, 0), Event(OversizedAscii, 0)}, MaxQueue)

SpecCall == Init /\ [][NextCall]_vars

\* every remote call is answered in the end
FairSpec == SpecCall /\ WF_vars(Respond(1, Tokens))

(* Carving: one caller, queues of events of every size, a remote service   *)
(* that finds the stream or fails the describe and accepts every append.   *)

BoundedSeq(set, n) == UNION {[1..k -> set] : k \in 0..n}

CarveEvents == {Event(SmallMessage, 0), Event(QuarterMessage, 0),
                Event(OversizedAscii, 0), Event(OversizedWide, 0)}

InitCarve ==
    /\ postingEvents = [s \in Streams |-> FALSE]
    /\ nextToken = [k \in Keys |-> Undefined]
    /\ \E evs \in BoundedSeq(CarveEvents, MaxCarveQueue) :
          queue = [q \in Queues |-> IF q = 1 THEN evs ELSE <<>>]
    /\ call = [c \in Calls |-> IdleCall]
    /\ retention = [g \in Groups |-> 0]
    /\ transport = NewTransport
    /\ history = NoHistory

NextCarve ==
    \/ upload(1, G, S, 1, 0, FALSE)
    \/ DescribeStreamResponds(1, "AccessDeniedException", FALSE, Undefined)
    \/ DescribeStreamResponds(1, NoError, TRUE, Null)
    \/ FirstPutResponds(1, NoError, Undefined)
    \/ Push(1, Event(SmallMessage, 0), MaxCarveQueue)

SpecCarve == InitCarve /\ [][NextCarve]_vars

----------------------------------------------------------------------------
(* In-flight guard.                                                        *)

Range(f) == {f[i] : i \in DOMAIN f}

\* an append of call c is outstanding
Appending(c) == call[c].pc = "put"

\* the step is an upload call in slot c: no other operation touches a call
\* that is not running
UploadCalled(c) == ~Running(c) /\ call'[c] # call[c]

\* C1: at no time are two appends outstanding for the same stream name,
\* whatever the order of upload calls and answers of the remote service.
C1_OneAppendPerStream ==
    \A c1, c2 \in Calls :
        (c1 # c2 /\ Appending(c1) /\ Appending(c2))
            => call[c1].stream # call[c2].stream

\* A resubmitted append is outstanding for a stream while its queue holds
\* events again, and another upload call for that stream was turned away.
C1_Witness ==
    \E c1, c2 \in Calls :
        /\ Appending(c1) /\ call[c1].puts >= 2
        /\ call[c2].pc = "done" /\ call[c2].guard = "posting"
        /\ call[c2].stream = call[c1].stream
        /\ queue[call[c1].queue] # <<>>

\* C2: an upload call made while the stream is marked in flight, or with an
\* empty queue, calls back once without error and changes nothing else: no
\* remote call goes out, the queue, the in-flight marks, the token store and
\* every other call stay as they were.
C2_GuardedUploadIsNoOp ==
    [][\A c \in Calls :
          (UploadCalled(c) /\ call'[c].guard \in {"posting", "empty"})
              => /\ UNCHANGED <<postingEvents, nextToken, queue, retention>>
                 /\ call'[c].pc = "done"
                 /\ call'[c].outcomes = <<NoError>>
                 /\ \A o \in Calls \ {c} : call'[o] = call[o]]_vars

\* An upload call was turned away because its stream was in flight, the other
\* call still waits for the remote service and every queue holds events.
C2_Witness ==
    \E c1, c2 \in Calls :
        /\ call[c1].pc = "done" /\ call[c1].guard = "posting"
        /\ call[c1].outcomes = <<NoError>>
        /\ Running(c2) /\ call[c2].stream = call[c1].stream
        /\ \A q \in Queues : queue[q] # <<>>

\* C3: once an upload call has delivered an outcome to its caller, the stream
\* is not marked in flight on behalf of that call.
C3_MarkReleasedWithOutcome ==
    \A c \in Calls :
        call[c].outcomes # <<>>
            => ~(Running(c) /\ postingEvents[call[c].stream])

\* C4: if every remote call is answered, every upload call that marked its
\* stream in flight ends: it has delivered its outcome and the mark is gone.
C4_UploadTerminates ==
    \A c \in Calls :
        Running(c) ~> (/\ call[c].pc = "done"
                       /\ call[c].outcomes # <<>>
                       /\ ~postingEvents[call[c].stream])

----------------------------------------------------------------------------
(* Carving.                                                                *)

\* the cost of an event: min(bytes(message) + 26, 256000)
Cost(ev) == Min(ByteLength(ev.message) + 26, 256000)

RECURSIVE TotalCost(_)
TotalCost(evs) ==
    IF evs = <<>> THEN 0 ELSE Cost(Head(evs)) + TotalCost(Tail(evs))

\* the same event object, its message untouched or cut by the carving loop
SameEvent(old, new) ==
    /\ new.timestamp = old.timestamp
    /\ new.message \in {old.message, Substring(old.message, 256000)}

\* the queue of the call that slot c holds in a step
QueueOf(c) == IF Running(c) THEN call[c].queue ELSE call'[c].queue

\* the step ends the first token acquisition of an upload call that passed the
\* guard: with the append submitted, or with the call ended by an error
FirstAcquisitionEnds(c) ==
    /\ call[c].pc # "put" /\ call[c].phase = "first"
    /\ call'[c] # call[c]
    /\ call'[c].guard = "passed"
    /\ call'[c].pc \in {"put", "done"}

\* the step carves the batch of call c
Carves(c) == FirstAcquisitionEnds(c) /\ call'[c].pc = "put"

\* the step takes the first n events of the queue as the batch of c and
\* leaves the others queued, in order
Takes(c, n) ==
    LET old == queue[QueueOf(c)]
        left == queue'[QueueOf(c)]
        batch == call'[c].events
    IN  /\ Len(batch) = n
        /\ Len(left) = Len(old) - n
        /\ \A i \in 1..n : SameEvent(old[i], batch[i])
        /\ \A i \in 1..Len(left) : SameEvent(old[n + i], left[i])

\* C5 as stated: an upload call on a non-empty queue and a stream not in
\* flight removes a non-empty prefix of the queue whose total cost is at most
\* 1,000,000 and leaves the other events queued in order.
C5_UploadRemovesPrefix ==
    [][\A c \in Calls :
          FirstAcquisitionEnds(c)
              => \E n \in 1..Len(queue[QueueOf(c)]) :
                    /\ Takes(c, n)
                    /\ TotalCost(SubSeq(queue[QueueOf(c)], 1, n)) <= 1000000]_vars

\* C5 amended: when the token acquisition of the call succeeds and the queue
\* holds an event at that moment, the call removes a non-empty prefix of the
\* queue whose total cost is at most 1,000,000 and leaves the other events
\* queued in order; when the acquisition fails the queue is left as it is.
C5_CarveRemovesPrefix ==
    [][\A c \in Calls :
          FirstAcquisitionEnds(c)
              => IF call'[c].pc = "done"
                 THEN UNCHANGED queue
                 ELSE queue[QueueOf(c)] # <<>>
                         => \E n \in 1..Len(queue[QueueOf(c)]) :
                               /\ Takes(c, n)
                               /\ TotalCost(SubSeq(queue[QueueOf(c)], 1, n))
                                      <= 1000000]_vars

\* A batch that ends with a cut oversized event was carved off a queue that
\* keeps its other events.
C5_Witness ==
    /\ call[1].pc = "put" /\ call[1].phase = "first"
    /\ Len(call[1].events) >= 2
    /\ MessageTruncated \in Range(call[1].outcomes)
    /\ TotalCost(call[1].events) > 750000
    /\ queue[1] # <<>>

\* C6: when no queued event is oversized, the batch is the longest prefix of
\* the queue that fits 1,000,000: the whole queue, or the next event's cost
\* would take the total over it.
C6_LongestPrefix ==
    [][\A c \in Calls :
          (Carves(c) /\ \A i \in DOMAIN queue[QueueOf(c)] :
                           ByteLength(queue[QueueOf(c)][i].message) + 26 <= 256000)
              => LET old == queue[QueueOf(c)]
                     n == Len(call'[c].events)
                 IN  /\ n <= Len(old)
                     /\ call'[c].events = SubSeq(old, 1, n)
                     /\ queue'[QueueOf(c)] = SubSeq(old, n + 1, Len(old))
                     /\ TotalCost(call'[c].events) <= 1000000
                     /\ \/ n = Len(old)
                        \/ TotalCost(call'[c].events) + Cost(old[n + 1]) > 1000000]_vars

\* Of five events of 250,026 bytes of cost the first call has taken three.
C6_Witness ==
    /\ call[1].pc = "put"
    /\ call[1].events = [i \in 1..3 |-> Event(QuarterMessage, 0)]
    /\ queue[1] = [i \in 1..2 |-> Event(QuarterMessage, 0)]

\* C7: an upload call that reported the truncation error issues no append.
C7_NoAppendAfterTruncation ==
    \A c \in Calls :
        MessageTruncated \in Range(call[c].outcomes)
            => ~Appending(c) /\ call[c].puts = 0

\* C8: a single queued event whose message encodes to more than 256,000 bytes
\* makes upload report the truncation error, and the length of the stored
\* message is 256,000 afterwards.
C8_TruncatedToCap ==
    [][\A c \in Calls :
          (/\ Carves(c)
           /\ Len(queue[QueueOf(c)]) = 1
           /\ ByteLength(queue[QueueOf(c)][1].message) > 256000)
              => /\ MessageTruncated \in Range(call'[c].outcomes)
                 /\ \A ev \in Range(queue'[QueueOf(c)] \o call'[c].events) :
                       Length(ev.message) = 256000]_vars

----------------------------------------------------------------------------
(* Tokens.                                                                 *)

KeyOf(c) == previousKeyMapKey(call[c].group, call[c].stream)

\* the key of the call that a step starts in slot c
KeyCalled(c) == previousKeyMapKey(call'[c].group, call'[c].stream)

\* the step is the answer to an append of call c: success, with next token t
AppendSucceeds(c, t) ==
    \/ FirstPutResponds(c, NoError, t)
    \/ AnotherPutResponds(c, NoError, t)
    \/ RetryPutResponds(c, NoError, t)

\* C9: with a token cached for the key, an upload call that ends with a
\* successful append that returned a new token leaves the new token in the
\* store, whichever of its submissions succeeded.
C9_NewTokenStored ==
    [][\A c \in Calls, t2 \in Tokens :
          (Appending(c) /\ HasToken(nextToken, KeyOf(c)) /\ AppendSucceeds(c, t2))
              => nextToken'[KeyOf(c)] = t2]_vars

\* C10: after a first append that was answered with a stale token or a missing
\* destination the call submits at most two appends, and the second goes out
\* with a token that was fetched from the remote service after the first, the
\* cached one being cleared.
C10_FreshTokenForSecondAppend ==
    \A c \in Calls :
        call[c].phase = "another"
            => /\ call[c].puts <= 2
               /\ Appending(c) => /\ call[c].tokenFrom = "remote"
                                  /\ ~HasToken(nextToken, KeyOf(c))

----------------------------------------------------------------------------
(* Submissions of one call.                                                *)

\* C11: after a first append that failed with an error that is neither a
\* stale token nor a missing destination, the call retries at most 3 more
\* times: it submits at most 4 appends in all.
C11_AtMostThreeRetries ==
    \A c \in Calls : call[c].phase = "retry" => call[c].puts <= 4

\* C12: the continuation token of every append request, the resubmission
\* after a stale token included, is a real token or is left out: it is never
\* null and never the empty string.
C12_TokenRealOrOmitted ==
    \A c \in Calls :
        Appending(c) => /\ call[c].token \in Tokens \cup {Undefined}
                        /\ call[c].token \notin {Null, Empty}

\* The append goes out again for a stream whose describe gave no token.
C12_Witness ==
    \E c \in Calls :
        /\ Appending(c) /\ call[c].phase = "another"
        /\ call[c].tokenFrom = "remote" /\ call[c].token = Undefined

\* C13: an upload call that finds a token for (g,s) in the store when it
\* acquires its token submits its first append with that token in the same
\* turn: no describe, create or set-retention request goes out before it.
C13_CachedTokenUsed ==
    [][\A c \in Calls :
          (/\ UploadCalled(c) /\ call'[c].guard = "passed"
           /\ nextToken[KeyCalled(c)] \in Tokens)
              => /\ call'[c].pc = "put" /\ call'[c].puts = 1
                 /\ call'[c].token = nextToken[KeyCalled(c)]
                 /\ UNCHANGED retention]_vars

\* A first append is outstanding with the token the store held.
C13_Witness ==
    \E c \in Calls :
        /\ Appending(c) /\ call[c].phase = "first" /\ call[c].puts = 1
        /\ call[c].tokenFrom = "cache"
        /\ call[c].token = nextToken[KeyOf(c)] /\ call[c].token \in Tokens
        /\ retention[call[c].group] = 0

----------------------------------------------------------------------------
(* Clearing a token.                                                       *)

----------------------------------------------------------------------------
(* Failures of token acquisition.                                          *)

\* the answer err of the remote service fails the token acquisition of call c
AcquisitionFails(c, err) ==
    \/ err # "ResourceNotFoundException" /\ DescribeGroupResponds(c, err)
    \/ ignoreInProgress(err) # NoError /\ CreateGroupResponds(c, err)
    \/ DescribeStreamResponds(c, err, FALSE, Undefined)
    \/ ignoreInProgress(err) # NoError /\ CreateStreamResponds(c, err)

\* C15: when the token acquisition of an upload fails (a describe, the
\* create-group or the create-stream answers with an error that is not
\* benign), the upload ends with exactly that error as its one outcome, has
\* issued no append, leaves the queue as it is and releases the in-flight
\* mark of its stream.
C15_AcquisitionFailureReported ==
    [][\A c \in Calls, err \in RemoteErrors :
          (call[c].phase = "first" /\ AcquisitionFails(c, err)) =>
              /\ call'[c].pc = "done"
              /\ call'[c].outcomes = <<err>>
              /\ call[c].puts = 0 /\ call'[c].puts = 0
              /\ UNCHANGED queue
              /\ postingEvents[call[c].stream]
              /\ ~postingEvents'[call[c].stream]]_vars

\* an upload has ended with the error of its token acquisition, its events
\* still queued and its stream free again
C15_Witness ==
    \E c \in Calls :
        /\ call[c].pc = "done"
        /\ call[c].guard = "passed"
        /\ call[c].outcomes = <<"AccessDeniedException">>
        /\ \E q \in Queues : Len(queue[q]) = MaxQueue
        /\ ~postingEvents[call[c].stream]

----------------------------------------------------------------------------
(* Creation races.                                                         *)

\* the errors of a create that another creator has won
InProgress == {"OperationAbortedException", "ResourceAlreadyExistsException"}

(* One caller whose group is never found by the describe of                *)
(* ensureGroupPresent, and creations that another creator always wins.     *)

NextRace ==
    \/ upload(1, G, S, 1, 7, TRUE)
    \/ DescribeGroupResponds(1, "ResourceNotFoundException")
    \/ \E err \in InProgress : CreateGroupResponds(1, err)
    \/ DescribeStreamResponds(1, NoError, FALSE, Undefined)
    \/ \E err \in InProgress : CreateStreamResponds(1, err)
    \/ \E token \in Tokens : DescribeStreamResponds(1, NoError, TRUE, token)
    \/ \E next \in Tokens \cup {Undefined} : FirstPutResponds(1, NoError, next)
    \/ \E err \in RetentionErrors \cup {NoError} : RetentionResponds(G, err)
    \/ clearSequenceToken(G, S)
    \/ \E m \in {SmallMessage, OversizedAscii} : Push(1, Event(m, 0), MaxQueue)

SpecRace == Init /\ [][NextRace]_vars

\* C16: when the describe of ensureGroupPresent has reported the group as
\* not found and createLogGroup answers already-exists or operation-aborted,
\* the call goes on exactly as after a creation that succeeded (the group
\* counts as present: the retention policy is put, getStream describes the
\* stream, no error reaches the caller); and when createLogStream answers
\* one of the two, getStream describes the stream again, with no error to
\* the caller either.
C16_CreationRaceAbsorbed ==
    [][\A c \in Calls, err \in InProgress :
          /\ CreateGroupResponds(c, err) =>
                /\ CreateGroupResponds(c, NoError)
                /\ call'[c].pc = "describeStream"
                /\ call'[c].outcomes = call[c].outcomes
                /\ retention' = putRetentionPolicy(retention, call[c].group, call[c].days)
          /\ CreateStreamResponds(c, err) =>
                /\ CreateStreamResponds(c, NoError)
                /\ call'[c].pc = "describeStream"
                /\ call'[c].outcomes = call[c].outcomes]_vars

\* a call whose group another creator made appends, with the token its
\* describe found, having reported nothing, the retention policy on its way
C16_Witness ==
    \E c \in Calls :
        /\ Appending(c)
        /\ call[c].ensure
        /\ call[c].tokenFrom = "remote"
        /\ call[c].outcomes = <<>>
        /\ retention[call[c].group] > 0

----------------------------------------------------------------------------
(* The retention policy.                                                   *)

\* C17: the answer to putRetentionPolicy, a success or a failure, changes
\* nothing an upload does or reports (no call, queue, mark or token), and an
\* upload that waits for a remote call can always go on with any answer to
\* that call while the retention request is unanswered: no outcome and no
\* append depends on the retention call.
C17_RetentionNeverFelt ==
    /\ [][\A g \in Groups, err \in RetentionErrors \cup {NoError} :
             RetentionResponds(g, err) =>
                 UNCHANGED <<call, queue, postingEvents, nextToken, transport,
                             history>>]_vars
    /\ [](\A c \in Calls : Running(c) => ENABLED Respond(c, Tokens))

\* an upload has ended without error while the retention request of its
\* group has had no answer
C17_Witness ==
    \E c \in Calls :
        /\ call[c].pc = "done"
        /\ call[c].guard = "passed"
        /\ call[c].outcomes = <<NoError>>
        /\ retention[call[c].group] > 0

----------------------------------------------------------------------------
(* Delivery at most once.                                                  *)

\* the events the queue of SpecOnce starts with
MaxOnce == 7

(* Two callers of one stream that never push: the queue starts with        *)
(* MaxOnce events of a quarter of a batch each, logged at MaxOnce          *)
(* different times, so that a timestamp names an event; appends fail or    *)
(* succeed.                                                               *)

InitOnce ==
    /\ postingEvents = [s \in Streams |-> FALSE]
    /\ nextToken = [k \in Keys |-> Undefined]
    /\ queue = [q \in Queues |->
                  IF q = 1 THEN [i \in 1..MaxOnce |-> Event(QuarterMessage, i)]
                  ELSE <<>>]
    /\ call = [c \in Calls |-> IdleCall]
    /\ retention = [g \in Groups |-> 0]
    /\ transport = NewTransport
    /\ history = NoHistory

NextOnce ==
    \E c \in Calls :
        \/ upload(c, G, S, 1, 0, FALSE)
        \/ DescribeStreamResponds(c, NoError, TRUE, "t1")
        \/ FirstPutResponds(c, "ThrottlingException", Undefined)
        \/ FirstPutResponds(c, NoError, "t2")
        \/ RetryPutResponds(c, "ThrottlingException", Undefined)
        \/ RetryPutResponds(c, NoError, "t2")

SpecOnce == InitOnce /\ [][NextOnce]_vars

\* C18: an event that was carved into a batch is never in a queue again, the
\* batch of a call is carved from the queue and holds no event that was
\* carved before, and a call keeps its batch as it is until it ends: so the
\* events of a call that ended in failure are in no later call's batch, and
\* an event is in the batches of at most one call.
C18_AtMostOnce ==
    /\ [](\A q \in Queues : Stamps(queue[q]) \cap history.carved = {})
    /\ [][\A c \in Calls :
            /\ (UploadCalled(c) \/ call[c].events = <<>>) /\ call'[c].events # <<>> =>
                  /\ Stamps(call'[c].events) \cap history.carved = {}
                  /\ Stamps(call'[c].events) \subseteq Stamps(queue[call'[c].queue])
                  /\ Stamps(call'[c].events) \subseteq history'.carved
            /\ call[c].events # <<>> /\ Running(c)' =>
                  call'[c].events = call[c].events]_vars

\* the first caller's upload has ended with the error of its appends, and
\* the second caller appends a batch without the first event of the queue
C18_Witness ==
    /\ call[1].pc = "done"
    /\ call[1].guard = "passed"
    /\ call[1].outcomes = <<"ThrottlingException">>
    /\ Appending(2)
    /\ call[2].events # <<>>
    /\ 1 \notin Stamps(call[2].events)
    /\ 1 \in history.carved

----------------------------------------------------------------------------
(* Streams side by side.                                                   *)

\* C19: an upload for a stream name that is not marked in flight is skipped
\* only if its queue is empty: else it passes the guard, marks its stream
\* and goes on to its token acquisition or its append, whatever uploads are
\* pending for other stream names; a call is skipped as in flight only when
\* its own stream name is marked.
C19_OtherStreamNotSkipped ==
    [][\A c \in Calls :
          UploadCalled(c) =>
             /\ (~postingEvents[call'[c].stream] /\ call'[c].guard # "empty") =>
                    /\ call'[c].guard = "passed"
                    /\ Running(c)'
                    /\ queue[call'[c].queue] # <<>>
                    /\ postingEvents'[call'[c].stream]
             /\ call'[c].guard = "posting" => postingEvents[call'[c].stream]]_vars

\* an upload passes the guard and goes on while the other caller's upload
\* for the other stream name is pending
C19_Witness ==
    \E c1, c2 \in Calls :
        /\ call[c1].stream # call[c2].stream
        /\ call[c1].pc = "put" /\ call[c1].guard = "passed"
        /\ call[c2].pc = "describeGroup" /\ call[c2].guard = "passed"
        /\ postingEvents[call[c1].stream]
        /\ postingEvents[call[c2].stream]

----------------------------------------------------------------------------
(* Flushing the transport.                                                 *)

\* the clock of SpecFlush stops here
MaxNow == 20000

(* A transport with its periodic upload and its kthxbye, on a clock that   *)
(* goes in steps of the flush timeout; the remote service finds the group, *)
(* finds the stream or fails its describe, and accepts every append.       *)

NextFlush ==
    \/ add(SmallMessage, MaxQueue)
    \/ Tick(defaultFlushTimeoutMs, MaxNow)
    \/ \E c \in Calls :
          \/ IntervalFires(c)
          \/ kthxbye(c)
          \/ KthxbyeTimerFires(c)
          \/ DescribeGroupResponds(c, NoError)
          \/ DescribeStreamResponds(c, NoError, TRUE, "t1")
          \/ DescribeStreamResponds(c, "AccessDeniedException", FALSE, Undefined)
          \/ FirstPutResponds(c, NoError, "t2")

SpecFlush == Init /\ [][NextFlush]_vars

\* the step calls the callback of kthxbye without an error
FlushReported ==
    /\ transport'.flushed # transport.flushed
    /\ transport'.flushed # <<>>
    /\ transport'.flushed[Len(transport'.flushed)] = NoError

\* C20: when kthxbye calls its callback without an error, the queue of the
\* transport is empty, every event that was queued has been carved into a
\* batch and submitted, and no upload for the stream of the transport is
\* still waiting for the remote service, whatever periodic upload was in
\* flight when kthxbye was called.
C20_FlushedMeansSent ==
    [][FlushReported =>
          /\ queue'[TransportQueue] = <<>>
          /\ \A c \in Calls :
                ~(Running(c)' /\ call'[c].stream = TransportStream)]_vars

(* The same transport logging messages of 300,000 characters, one in the   *)
(* queue at a time.                                                        *)

NextBigFlush ==
    \/ add(OversizedAscii, MaxShared)
    \/ Tick(defaultFlushTimeoutMs, MaxNow)
    \/ \E c \in Calls :
          \/ IntervalFires(c)
          \/ kthxbye(c)
          \/ KthxbyeTimerFires(c)
          \/ DescribeGroupResponds(c, NoError)
          \/ DescribeStreamResponds(c, NoError, TRUE, "t1")
          \/ DescribeStreamResponds(c, "AccessDeniedException", FALSE, Undefined)
          \/ FirstPutResponds(c, NoError, "t2")

SpecBigFlush == Init /\ [][NextBigFlush]_vars

\* the step calls the callback of kthxbye with the timeout error
FlushTimesOut ==
    /\ Len(transport'.flushed) = Len(transport.flushed) + 1
    /\ transport'.flushed[Len(transport'.flushed)] = FlushTimedOut

\* C21: kthxbye calls its callback with the timeout error only when a submit
\* has called back without error, the queue is not empty and the clock is
\* past the deadline, and then it leaves the queue as it is and sets no
\* timer; and between two calls of kthxbye its callback is called at most
\* once.
C21_FlushEndsOnce ==
    /\ [][FlushTimesOut =>
             /\ transport'.now > transport'.flushTimeout
             /\ queue'[TransportQueue] # <<>>
             /\ transport'.timers = 0]_vars
    /\ [](Len(transport.flushed) <= 1)

\* the step calls the callback of kthxbye
FlushCalled ==
    /\ transport'.flushed # transport.flushed
    /\ transport'.flushed # <<>>

\* C22: when kthxbye calls its callback the transport has no timer of the
\* periodic upload, whatever logs were added while kthxbye was flushing.
C22_NoIntervalWhenFlushed ==
    [][FlushCalled => ~transport'.intervalId]_vars

----------------------------------------------------------------------------
(* The order of a batch.                                                   *)

\* the system clock that Date reads is set to another time
SetClock(to) ==
    /\ transport.now # to
    /\ transport' = [transport EXCEPT !.now = to]
    /\ UNCHANGED <<postingEvents, nextToken, queue, call, retention, history>>

(* A transport and its periodic upload on a system clock that goes on and  *)
(* can be set back.                                                        *)

NextStamp ==
    \/ add(SmallMessage, MaxQueue)
    \/ Tick(defaultFlushTimeoutMs, MaxNow)
    \/ SetClock(0)
    \/ \E c \in Calls :
          \/ IntervalFires(c)
          \/ DescribeGroupResponds(c, NoError)
          \/ DescribeStreamResponds(c, NoError, TRUE, "t1")
          \/ FirstPutResponds(c, NoError, "t2")

SpecStamp == Init /\ [][NextStamp]_vars

\* the timestamps of evs do not decrease
Chronological(evs) ==
    \A i \in 1..(Len(evs) - 1) : evs[i].timestamp <= evs[i + 1].timestamp

\* C23: every batch that a transport has submitted to the remote append has
\* its events in non-decreasing order of their timestamps.
C23_BatchChronological ==
    \A c \in Calls :
        (Appending(c) /\ call[c].cb # "caller") => Chronological(call[c].events)

----------------------------------------------------------------------------
(* Names given as functions.                                               *)

\* the clock of SpecNames stops here
MaxNameClock == 150000

\* getGroupName() of a transport whose logGroupName is a function that
\* returns G
getGroupName ==
    LET now == transport.now
        since == IF history.groupResolvedAt = Never THEN Never
                 ELSE now - history.groupResolvedAt
    IN  IF /\ transport.groupNameCache # Undefined
           /\ transport.namesCachedAt # 0
           /\ (now - transport.namesCachedAt) < nameCacheDuration
        THEN /\ history' = [history EXCEPT !.lookup = [name |-> "group",
                                             called |-> FALSE, since |-> since]]
             /\ UNCHANGED <<postingEvents, nextToken, queue, call, retention,
                            transport>>
        ELSE /\ transport' = [transport EXCEPT !.groupNameCache = G,
                                               !.namesCachedAt = now]
             /\ history' = [history EXCEPT !.groupResolvedAt = now,
                                           !.lookup = [name |-> "group",
                                             called |-> TRUE, since |-> since]]
             /\ UNCHANGED <<postingEvents, nextToken, queue, call, retention>>

\* getStreamName() of a transport whose logStreamName is a function that
\* returns S
getStreamName ==
    LET now == transport.now
        since == IF history.streamResolvedAt = Never THEN Never
                 ELSE now - history.streamResolvedAt
    IN  IF /\ transport.streamNameCache # Undefined
           /\ transport.namesCachedAt # 0
           /\ (now - transport.namesCachedAt) < nameCacheDuration
        THEN /\ history' = [history EXCEPT !.lookup = [name |-> "stream",
                                             called |-> FALSE, since |-> since]]
             /\ UNCHANGED <<postingEvents, nextToken, queue, call, retention,
                            transport>>
        ELSE /\ transport' = [transport EXCEPT !.streamNameCache = S,
                                               !.namesCachedAt = now]
             /\ history' = [history EXCEPT !.streamResolvedAt = now,
                                           !.lookup = [name |-> "stream",
                                             called |-> TRUE, since |-> since]]
             /\ UNCHANGED <<postingEvents, nextToken, queue, call, retention>>

(* A transport with both names given as functions, made at a time when the *)
(* clock reads the flush timeout, and looked up at any times after.        *)

InitNames ==
    /\ postingEvents = [s \in Streams |-> FALSE]
    /\ nextToken = [k \in Keys |-> Undefined]
    /\ queue = [q \in Queues |-> <<>>]
    /\ call = [c \in Calls |-> IdleCall]
    /\ retention = [g \in Groups |-> 0]
    /\ transport = [NewTransport EXCEPT !.now = defaultFlushTimeoutMs]
    /\ history = NoHistory

NextNames ==
    \/ getGroupName
    \/ getStreamName
    \/ Tick(nameCacheDuration \div 2, MaxNameClock)

SpecNames == InitNames /\ [][NextNames]_vars

\* C24: a lookup of a name given as a function calls the function if the
\* name was never resolved or was last resolved 60,000 ms ago or longer, and
\* returns the cached name without calling it if the name was last resolved
\* less than 60,000 ms ago; for the group name and for the stream name.
C24_NameCachedForDuration ==
    history.lookup.name # "none" =>
        (history.lookup.called <=>
            \/ history.lookup.since = Never
            \/ history.lookup.since >= nameCacheDuration)

----------------------------------------------------------------------------
(* Carving and resubmitting.                                               *)

\* C25: an upload whose carving meets an oversized event removes no event
\* from the queue and submits none: the queue holds the events it held, in
\* their order, with only the message of the oversized event cut.
C25_TruncationDiscardsProgress ==
    [][\A c \in Calls :
          (FirstAcquisitionEnds(c) /\ MessageTruncated \in Range(call'[c].outcomes)) =>
              /\ call'[c].events = <<>>
              /\ call'[c].puts = 0
              /\ Len(queue'[QueueOf(c)]) = Len(queue[QueueOf(c)])
              /\ \A i \in DOMAIN queue[QueueOf(c)] :
                    SameEvent(queue[QueueOf(c)][i], queue'[QueueOf(c)][i])]_vars

\* C26: from its first append on, a step of an upload call leaves every queue
\* as it is, and every later submission of the call (with another token or
\* as a retry) carries the events of the first one, in their order: events
\* that are pushed meanwhile stay queued.
C26_ResubmitsSameBatch ==
    [][\A c \in Calls :
          (Appending(c) /\ call'[c] # call[c]) =>
              /\ UNCHANGED queue
              /\ Running(c)' => /\ call'[c].events = call[c].events
                                /\ call'[c].events # <<>>
              /\ call'[c].puts > call[c].puts => call'[c].pc = "put"]_vars

\* a call is at its third submission or a later one while events that were
\* pushed since it carved its batch fill the queue
C26_Witness ==
    \E c \in Calls :
        /\ Appending(c)
        /\ call[c].phase = "retry"
        /\ call[c].puts >= 3
        /\ call[c].events # <<>>
        /\ Len(queue[call[c].queue]) = MaxQueue

----------------------------------------------------------------------------
(* Provisioning switched off.                                              *)

\* C27: an upload with ensureLogGroup false that passes the guard without a
\* cached token describes the stream first; such a call never waits for the
\* describe or the creation of the group and no step of it sends a
\* retention request; and when its token acquisition ends without a stream
\* the call ends with an error and has appended nothing.
C27_NoGroupProvisioning ==
    /\ [](\A c \in Calls :
            (Running(c) /\ ~call[c].ensure) =>
                call[c].pc \notin {"describeGroup", "createGroup"})
    /\ [][\A c \in Calls :
            /\ (/\ UploadCalled(c)
                /\ call'[c].guard = "passed"
                /\ ~call'[c].ensure
                /\ ~HasToken(nextToken, KeyCalled(c))) =>
                    /\ call'[c].pc = "describeStream"
                    /\ call'[c].puts = 0
                    /\ UNCHANGED retention
            /\ (Running(c) /\ ~call[c].ensure /\ call'[c] # call[c]) =>
                    UNCHANGED retention
            /\ (/\ Running(c) /\ ~call[c].ensure /\ call[c].phase = "first"
                /\ call[c].pc \in {"describeStream", "createStream"}
                /\ call'[c].pc \notin {"describeStream", "createStream", "put"}) =>
                    /\ call'[c].pc = "done"
                    /\ call'[c].puts = 0
                    /\ Len(call'[c].outcomes) = 1
                    /\ call'[c].outcomes[1] \in RemoteErrors]_vars

\* an upload with ensureLogGroup false and a retention of 7 days appends with
\* the token of the stream describe, and no retention request is on its way
C27_Witness ==
    \E c \in Calls :
        /\ Appending(c)
        /\ ~call[c].ensure
        /\ call[c].days > 0
        /\ call[c].tokenFrom = "remote"
        /\ retention[call[c].group] = 0

----------------------------------------------------------------------------
(* Retention requests.                                                     *)

\* C28: a retention request goes out only in a step of an upload whose
\* retention is more than 0 days, and no step of an upload with 0 days
\* changes the requests that are on their way; when ensureGroupPresent goes
\* on to the stream for an upload with more than 0 days, a request for the
\* group is on its way.
C28_RetentionOnlyForDays ==
    [][\A c \in Calls :
          Running(c) /\ call'[c] # call[c] =>
             /\ call[c].days = 0 => UNCHANGED retention
             /\ retention' # retention =>
                   /\ call[c].days > 0
                   /\ call[c].pc \in {"describeGroup", "createGroup"}
                   /\ retention'[call[c].group] > retention[call[c].group]
             /\ (/\ call[c].pc \in {"describeGroup", "createGroup"}
                 /\ call'[c].pc = "describeStream"
                 /\ call[c].days > 0) => retention'[call[c].group] > 0]_vars

\* an upload with a retention of 0 days, whose group was described, appends
\* and no retention request is on its way
C28_Witness ==
    \E c \in Calls :
        /\ Appending(c)
        /\ call[c].ensure
        /\ call[c].days = 0
        /\ call[c].tokenFrom = "remote"
        /\ retention[call[c].group] = 0

\* C29: no retention request goes out when the describe of the group fails
\* with an error other than not-found, nor when the creation of the group
\* fails with an error that is not benign.
C29_NoRetentionAfterFailure ==
    [][\A c \in Calls, err \in RemoteErrors :
          (\/ err # "ResourceNotFoundException" /\ DescribeGroupResponds(c, err)
           \/ ignoreInProgress(err) # NoError /\ CreateGroupResponds(c, err)) =>
              UNCHANGED retention]_vars

----------------------------------------------------------------------------
(* One stream name in two groups.                                          *)

(* Two callers with a queue each, two groups with a stream of the same     *)
(* name, small events, the group ensured first.                           *)

NextGroups ==
    Work({1, 2}, Groups, {S}, Queues, {0}, {TRUE}, {"t1"},
         {Event(SmallMessage, 0)}, MaxShared)

SpecGroups == Init /\ [][NextGroups]_vars

\* C30: while an upload for a stream name is running, an upload call for the
\* stream of that name in another group is skipped: it calls back once
\* without error and changes nothing else (no remote call, the queues, the
\* marks and the token store as they were), though the two have different
\* keys in the token store.
C30_GuardKeyedByStreamName ==
    [][\A c, o \in Calls :
          (/\ UploadCalled(c)
           /\ Running(o)
           /\ call[o].stream = call'[c].stream
           /\ call[o].group # call'[c].group) =>
              /\ KeyCalled(c) # KeyOf(o)
              /\ call'[c].guard = "posting"
              /\ call'[c].pc = "done"
              /\ call'[c].outcomes = <<NoError>>
              /\ call'[o] = call[o]
              /\ UNCHANGED <<queue, postingEvents, nextToken, retention>>]_vars

\* an append is outstanding for the stream of one group, and the upload of a
\* queue that holds an event to the stream of that name in the other group
\* was skipped
C30_Witness ==
    \E c, o \in Calls :
        /\ Appending(o)
        /\ call[c].pc = "done" /\ call[c].guard = "posting"
        /\ call[c].stream = call[o].stream
        /\ call[c].group # call[o].group
        /\ \A q \in Queues \ {call[o].queue} : queue[q] # <<>>

----------------------------------------------------------------------------
(* The group is ensured.                                                   *)

(* One caller that has its group ensured, a describe and a creation of the *)
(* group that answer anything, a stream that is always found and appends   *)
(* that are always accepted.                                               *)

NextEnsure ==
    \/ \E d \in Days : upload(1, G, S, 1, d, TRUE)
    \/ \E err \in DescribeErrors \cup {NoError} : DescribeGroupResponds(1, err)
    \/ \E err \in CreateErrors \cup {NoError} : CreateGroupResponds(1, err)
    \/ \E token \in Tokens \cup {Null} : DescribeStreamResponds(1, NoError, TRUE, token)
    \/ \E next \in Tokens \cup {Undefined} : FirstPutResponds(1, NoError, next)
    \/ \E err \in RetentionErrors \cup {NoError} : RetentionResponds(G, err)
    \/ clearSequenceToken(G, S)
    \/ \E m \in {SmallMessage, OversizedAscii} : Push(1, Event(m, 0), MaxQueue)

SpecEnsure == Init /\ [][NextEnsure]_vars

\* C31: when the describe of the group fails with an error other than
\* not-found, ensureGroupPresent calls its callback with the result true
\* and makes no create-group call.
C31_DescribeFailureCountsAsPresent ==
    [][\A c \in Calls, err \in RemoteErrors \ {"ResourceNotFoundException"} :
          DescribeGroupResponds(c, err) =>
              /\ call'[c].pc # "createGroup"
              /\ call'[c].groupPresent = TRUE]_vars

\* a call has ended with the error of the describe of its group (no other
\* remote call fails here but the creation, whose result is false), and the
\* group was reported present
C31_Witness ==
    \E c \in Calls :
        /\ call[c].pc = "done"
        /\ call[c].outcomes = <<"AccessDeniedException">>
        /\ call[c].groupPresent = TRUE

\* C32: every call of upload invokes its completion callback exactly once:
\* a call that has ended has called back once, and a call that still waits
\* for a remote call has not called back yet.
C32_CallbackExactlyOnce ==
    \A c \in Calls :
        /\ call[c].pc = "done" => Len(call[c].outcomes) = 1
        /\ Running(c) => Len(call[c].outcomes) = 0

\* C33: when the token acquisition of submitWithAnotherToken fails, the
\* upload ends with that error as its outcome and issues no second append.
C33_RecoveryFailureReported ==
    [][\A c \in Calls, err \in RemoteErrors :
          (call[c].phase = "another" /\ AcquisitionFails(c, err)) =>
              /\ call'[c].pc = "done"
              /\ call'[c].outcomes = call[c].outcomes \o <<err>>
              /\ call'[c].puts = call[c].puts]_vars

----------------------------------------------------------------------------
(* The promise-based library, src/lib/cloudwatch-integration.js: its       *)
(* upload with a token acquisition and appends that succeed.               *)

\* The while loop of its safeUpload: the first oversized event is cut in
\* place and the loop throws msgTooBigErr; thrown tells whether it did.
RECURSIVE CarveLoopJs(_, _, _)
CarveLoopJs(evs, entryIndex, bytes) ==
    IF ~(entryIndex < Len(evs))
    THEN [evs |-> evs, entryIndex |-> entryIndex, thrown |-> FALSE]
    ELSE LET ev == evs[entryIndex + 1] IN
         IF Oversized(ev)
         THEN [evs |-> [evs EXCEPT ![entryIndex + 1].message =
                                       Substring(@, MAX_EVENT_MSG_SIZE_BYTES)],
               entryIndex |-> entryIndex, thrown |-> TRUE]
         ELSE IF BatchFull(bytes, EventSize(ev))
         THEN [evs |-> evs, entryIndex |-> entryIndex, thrown |-> FALSE]
         ELSE CarveLoopJs(evs, entryIndex + 1, bytes + EventSize(ev))

CarveJs(evs) == CarveLoopJs(evs, 0, 0)

\* lib.upload(aws, groupName, streamName, logEvents, ...), up to the await of
\* lib.getToken
uploadJs(c, group, stream, q) ==
    /\ ~Running(c)
    /\ LET rec == [IdleCall EXCEPT !.group = group, !.stream = stream, !.queue = q,
                                   !.ensure = FALSE,
                                   !.guard = IF postingEvents[stream] THEN "posting"
                                             ELSE IF Len(queue[q]) <= 0 THEN "empty"
                                             ELSE "passed"]
       IN  IF GuardedOut(stream, queue[q])
           THEN /\ call' = [call EXCEPT ![c] = Ended(Callback(rec, NoError))]
                /\ UNCHANGED postingEvents
           ELSE /\ call' = [call EXCEPT ![c] = [rec EXCEPT !.pc = "describeStream"]]
                /\ postingEvents' = MarkInFlight(postingEvents, stream)
    /\ UNCHANGED <<queue, nextToken, retention, transport, history>>

\* await lib.getToken(...) resolves with a token: the loop runs; when it
\* throws, the finally of upload deletes the mark and upload rejects; else
\* the batch is spliced off and putLogEvents awaited
TokenResolvesJs(c, token) ==
    /\ call[c].pc = "describeStream"
    /\ LET rec == call[c]
           r == CarveJs(queue[rec.queue])
       IN  IF r.thrown
           THEN /\ queue' = [queue EXCEPT ![rec.queue] = r.evs]
                /\ postingEvents' = Unmark(postingEvents, rec.stream)
                /\ call' = [call EXCEPT ![c] = Ended(Callback(rec, MessageTruncated))]
           ELSE /\ queue' = [queue EXCEPT ![rec.queue] = SpliceLeft(r.evs, r.entryIndex)]
                /\ postingEvents' = MarkPosting(postingEvents, rec.stream)
                /\ call' = [call EXCEPT ![c] =
                              Submit([rec EXCEPT !.events = SpliceTaken(r.evs, r.entryIndex),
                                                 !.token = IF Truthy(token) THEN token
                                                           ELSE Undefined,
                                                 !.tokenFrom = "remote"],
                                     "first", 0)]
    /\ UNCHANGED <<nextToken, retention, transport, history>>

\* await aws.putLogEvents(payload) resolves: the next token is stored, the
\* mark deleted and upload resolves
PutResolvesJs(c, next) ==
    /\ call[c].pc = "put"
    /\ LET rec == call[c] IN
       /\ nextToken' = StoreNextToken(nextToken,
                                      previousKeyMapKey(rec.group, rec.stream), next)
       /\ postingEvents' = Unmark(postingEvents, rec.stream)
       /\ call' = [call EXCEPT ![c] = Ended(Callback(rec, NoError))]
    /\ UNCHANGED <<queue, retention, transport, history>>

NextCarveJs ==
    \/ uploadJs(1, G, S, 1)
    \/ \E token \in Tokens \cup {Null} : TokenResolvesJs(1, token)
    \/ \E next \in Tokens \cup {Undefined} : PutResolvesJs(1, next)
    \/ Push(1, Event(SmallMessage, 0), MaxCarveQueue)

SpecCarveJs == InitCarve /\ [][NextCarveJs]_vars

\* the loop of the promise-based safeUpload throws for the first event of evs
ThrowsForHeadJs(evs) == CarveJs(evs).thrown /\ CarveJs(evs).entryIndex = 0

\* C34: in the promise-based library, when upload has rejected with the
\* truncation error for the event at the head of the queue (cutting its
\* message in place), a following upload on the queue does not reject with
\* the truncation error for that event again: the loop no longer throws for
\* the head of the queue as the rejection has left it.
C34_TruncatedEventCarvedNext ==
    [][\A c \in Calls :
          (/\ call[c].pc = "describeStream"
           /\ ThrowsForHeadJs(queue[call[c].queue])
           /\ call'[c].pc = "done"
           /\ call'[c].outcomes = <<MessageTruncated>>) =>
              ~ThrowsForHeadJs(queue'[call[c].queue])]_vars

----------------------------------------------------------------------------
(* The token store.                                                        *)

(* One caller at a time that uploads to two streams of one group and       *)
(* clears tokens, with every answer of the remote service.                 *)

NextStore ==
    Step({1}, {G}, Streams, {1}, Days, BOOLEAN, {"t1"},
         {Event(SmallMessage, 0), Event(OversizedAscii, 0)}, MaxShared)

SpecStore == Init /\ [][NextStore]_vars

\* the step calls the callback of call c with an error
ReportsError(c) ==
    \E i \in DOMAIN call'[c].outcomes :
        /\ call'[c].outcomes[i] # NoError
        /\ UploadCalled(c) \/ i > Len(call[c].outcomes)

NextPairs ==
    Step({1}, Groups, Streams, {1}, {7}, {TRUE}, {"t1"},
         {Event(SmallMessage, 0)}, MaxShared)

SpecPairs == Init /\ [][NextPairs]_vars

\* the entry that token acquisition and clearSequenceToken use for a pair
EntryOf(nt, g, s) == nt[previousKeyMapKey(g, s)]

\* C36: two different (group, stream) pairs never share an entry of the token
\* store: when an upload to (g1, s1) stores its next token, and when
\* clearSequenceToken is called for (g1, s1), the entry that token acquisition
\* reads for any other pair (g2, s2) stays as it was, names with ':' included.
C36_PairsNeverShareEntry ==
    [][\A g1, g2 \in Groups, s1, s2 \in Streams :
          (/\ <<g1, s1>> # <<g2, s2>>
           /\ \/ clearSequenceToken(g1, s1)
              \/ \E c \in Calls, t \in Tokens :
                    /\ call[c].group = g1 /\ call[c].stream = s1
                    /\ FirstPutResponds(c, NoError, t)) =>
              EntryOf(nextToken', g2, s2) = EntryOf(nextToken, g2, s2)]_vars

----------------------------------------------------------------------------
(* The queue of the transport.                                             *)

(* A transport that logs small and oversized messages on a clock that goes *)
(* on and can be set back, and its periodic upload with a remote service   *)
(* that accepts every append.                                              *)

NextQueue ==
    \/ \E m \in {SmallMessage, OversizedAscii} : add(m, MaxQueue)
    \/ Tick(defaultFlushTimeoutMs, MaxNow)
    \/ SetClock(0)
    \/ \E c \in Calls :
          \/ IntervalFires(c)
          \/ DescribeGroupResponds(c, NoError)
          \/ DescribeStreamResponds(c, NoError, TRUE, "t1")
          \/ FirstPutResponds(c, NoError, "t2")

SpecQueue == Init /\ [][NextQueue]_vars

\* how many events of evs were logged at time t
Count(evs, t) == Cardinality({i \in DOMAIN evs : evs[i].timestamp = t})

\* the calls whose batch the step carves off the queue
Carvers ==
    {c \in Calls : /\ call'[c].events # <<>>
                   /\ UploadCalled(c) \/ (Running(c) /\ call[c].events = <<>>)}

\* C37: the events of the transport are conserved.  In every step, for
\* every time of logging, the events in the queue after the step and the
\* events the step has carved into a batch are as many as the events in the
\* queue before it and the event the step has added: add puts one event in
\* the queue, a sort keeps them all, a carve moves events from the queue into
\* the batch of one call, and a batch stays as it is while its call runs.
C37_QueueConserved ==
    [][/\ Cardinality(Carvers) <= 1
       /\ \A t \in Stamps(queue[TransportQueue]) \cup Stamps(queue'[TransportQueue])
                   \cup UNION {Stamps(call'[c].events) : c \in Carvers}
                   \cup {transport.now} :
             LET taken == IF Carvers = {} THEN 0
                          ELSE Count(call'[CHOOSE c \in Carvers : TRUE].events, t)
                 added == IF t = transport.now
                             /\ \E m \in {SmallMessage, OversizedAscii} : add(m, MaxQueue)
                          THEN 1 ELSE 0
             IN  Count(queue'[TransportQueue], t) + taken
                    = Count(queue[TransportQueue], t) + added
       /\ \A c \in Calls :
             (call[c].events # <<>> /\ Running(c)') =>
                 call'[c].events = call[c].events]_vars

\* an append of two events that were logged at different times is
\* outstanding while the queue holds an event that was logged since
C37_Witness ==
    \E c \in Calls :
        /\ Appending(c)
        /\ Cardinality(Stamps(call[c].events)) = 2
        /\ queue[TransportQueue] # <<>>
        /\ Stamps(queue[TransportQueue]) \cap Stamps(call[c].events) = {}

----------------------------------------------------------------------------
(* The deadline of a flush.                                                *)

\* the step calls the callback kthxbye gave submit, without an error: an
\* upload it started has ended, or its upload was skipped by the guard
KthxbyeSubmitDone(c) ==
    /\ call'[c].pc = "done" /\ call'[c].outcomes = <<NoError>>
    /\ \/ Running(c) /\ call[c].cb = "kthxbye"
       \/ UploadCalled(c) /\ (kthxbye(c) \/ KthxbyeTimerFires(c))

\* C38: the flush deadline of a transport is set once, by the first kthxbye
\* call, to the time of that call plus 10,000 ms, and nothing changes it
\* afterwards; a kthxbye call that starts after the deadline is judged
\* against it: when its submit has left the queue non-empty its callback
\* gets the timeout error, and no second submit is scheduled.
C38_FlushDeadlineSetOnce ==
    [][/\ transport.flushTimeout # 0 =>
             transport'.flushTimeout = transport.flushTimeout
       /\ (transport.flushTimeout = 0 /\ transport'.flushTimeout # 0) =>
             /\ \E c \in Calls : kthxbye(c)
             /\ transport.kthxbyeAt = Never
             /\ transport'.flushTimeout = transport.now + defaultFlushTimeoutMs
       /\ transport'.kthxbyeAt > transport'.flushTimeout =>
             /\ transport'.timers = 0
             /\ \A c \in Calls :
                   (KthxbyeSubmitDone(c) /\ queue'[TransportQueue] # <<>>) =>
                       transport'.flushed = <<FlushTimedOut>>]_vars

\* a kthxbye call that was made after the deadline of the first one has
\* ended with the timeout error, with an event left in the queue
C38_Witness ==
    /\ transport.flushTimeout # 0
    /\ transport.kthxbyeAt > transport.flushTimeout
    /\ transport.flushed = <<FlushTimedOut>>
    /\ transport.timers = 0
    /\ queue[TransportQueue] # <<>>
    /\ \A c \in Calls : ~Running(c)

============================================================================
